---- MODULE Spec2Model ----
(***************************************************************************)
(* Model of the DHI workshop repository:                                   *)
(*   - the Express server of app/src/server.ts (GET /api/health and        *)
(*     GET /api/time), and                                                 *)
(*   - the image scanning script scripts/scan-image.sh.                    *)
(* The server is checked under Spec, the script under ScanSpec.            *)
(***************************************************************************)
EXTENDS Integers, Sequences, FiniteSets, Bags, TLC

VARIABLES
    \* ---- server (app/src/server.ts)
    listening,      \* the process is up and accepting requests (app.listen)
    env,            \* process.env, restricted to NODE_ICU_DATA
    clock,          \* the wall clock new Date() reads: [day, ms]
    ticks,          \* how many times the clock has advanced
    pending,        \* bag of requests received and not yet dispatched
    log,            \* the exchanges so far: <<[req, now, env, intl, res]>>
    \* ---- scan script (scripts/scan-image.sh)
    pc,             \* position of the script
    argv,           \* positional arguments "$@"
    trivyInstalled, \* command -v trivy succeeds
    IMAGE,          \* line 57
    OUTPUT_FILE,    \* line 58
    stdout,         \* lines printed, as tags
    calls,          \* external processes started, in order
    running,        \* external processes running now
    ended,          \* external processes that have ended: <<[proc, status]>>
    files,          \* paths at which a file exists
    exitStatus      \* exit status of the script, -1 while it runs

serverVars == <<listening, env, clock, ticks, pending, log>>
scanVars == <<pc, argv, trivyInstalled, IMAGE, OUTPUT_FILE, stdout, calls,
              running, ended, files, exitStatus>>
vars == <<listening, env, clock, ticks, pending, log,
          pc, argv, trivyInstalled, IMAGE, OUTPUT_FILE, stdout, calls,
          running, ended, files, exitStatus>>

(***************************************************************************)
(* Bounds of the model.                                                    *)
(***************************************************************************)
MaxRequests == 2
MaxTicks == 1
MaxArgs == 3

(***************************************************************************)
(* JavaScript objects with string keys: functions from a set of keys.      *)
(***************************************************************************)
Has(obj, key) == key \in DOMAIN obj

EmptyObject == [k \in {} |-> ""]

\* The property read without its || default.
OrDefault_NoDefault(obj, key, d) ==
    IF Has(obj, key) THEN obj[key] ELSE ""

\* x || d for a property that holds a string or is undefined.
OrDefault(obj, key, d) ==
    IF Has(obj, key) /\ obj[key] # "" THEN obj[key] ELSE d

(***************************************************************************)
(* The clock and Date.prototype.toISOString.  An instant is a day number   *)
(* since 1970-01-01 and the milliseconds elapsed in that day.              *)
(***************************************************************************)
DigitChars == <<"0", "1", "2", "3", "4", "5", "6", "7", "8", "9">>

Digit(n) == DigitChars[n + 1]

Pad2(n) == <<Digit((n \div 10) % 10), Digit(n % 10)>>
Pad3(n) == <<Digit((n \div 100) % 10), Digit((n \div 10) % 10), Digit(n % 10)>>
Pad4(n) == <<Digit((n \div 1000) % 10), Digit((n \div 100) % 10),
             Digit((n \div 10) % 10), Digit(n % 10)>>

\* Proleptic Gregorian date of a day number (days since 1970-01-01).
CivilFromDays(day) ==
    LET z == day + 719468
        era == z \div 146097
        doe == z - era * 146097
        yoe == (doe - doe \div 1460 + doe \div 36524 - doe \div 146096) \div 365
        doy == doe - (365 * yoe + yoe \div 4 - yoe \div 100)
        mp == (5 * doy + 2) \div 153
        d == doy - (153 * mp + 2) \div 5 + 1
        m == IF mp < 10 THEN mp + 3 ELSE mp - 9
        y == yoe + era * 400 + (IF m <= 2 THEN 1 ELSE 0)
    IN [year |-> y, month |-> m, day |-> d]

\* The fields joined without zero padding.
toISOString_Unpadded(t) ==
    LET c == CivilFromDays(t.day)
        Num(n) == IF n < 10 THEN <<Digit(n)>> ELSE Pad2(n)
    IN Pad4(c.year) \o <<"-">> \o Num(c.month) \o <<"-">> \o Num(c.day)
       \o <<"T">> \o Num(t.ms \div 3600000) \o <<":">> \o Num((t.ms \div 60000) % 60)
       \o <<":">> \o Num((t.ms \div 1000) % 60) \o <<".">> \o Pad3(t.ms % 1000)
       \o <<"Z">>

\* YYYY-MM-DDTHH:mm:ss.sssZ, as a sequence of characters.
toISOString(t) ==
    LET c == CivilFromDays(t.day)
        h == t.ms \div 3600000
        mi == (t.ms \div 60000) % 60
        s == (t.ms \div 1000) % 60
        f == t.ms % 1000
    IN Pad4(c.year) \o <<"-">> \o Pad2(c.month) \o <<"-">> \o Pad2(c.day)
       \o <<"T">> \o Pad2(h) \o <<":">> \o Pad2(mi) \o <<":">> \o Pad2(s)
       \o <<".">> \o Pad3(f) \o <<"Z">>

(***************************************************************************)
(* Intl, as the handler uses it.  Identifiers are atomic strings; the sets *)
(* below say which of the identifiers of the model ECMA-402 accepts.       *)
(***************************************************************************)
\* Structurally valid language tags (unicode_language_subtag is 2-3 or 5-8
\* letters, so "toString" is one; "e" and "not a locale" are not).
WellFormedLocales == {"en-US", "fr-FR", "ja-JP", "ar-SA", "toString"}

\* Locales the ICU data of the runtime has; any other well-formed tag
\* resolves to the default locale of the runtime.
SupportedLocales == {"en-US", "fr-FR", "ja-JP", "ar-SA"}

\* Identifiers of the IANA time zone database.
ValidTimeZones == {"UTC", "Asia/Tokyo", "Europe/Paris"}

\* ISO 4217 well-formedness: three ASCII letters.
WellFormedCurrencies == {"USD", "GBP", "EUR", "JPY", "CNY", "BRL", "KRW"}

Ok(v) == [ok |-> TRUE, value |-> v]
Throw(msg) == [ok |-> FALSE,
               error |-> [isError |-> TRUE, name |-> "RangeError", message |-> msg]]

ResolveLocale(locale) == IF locale \in SupportedLocales THEN locale ELSE "en-US"

\* new Intl.DateTimeFormat(locale, {dateStyle, timeStyle, timeZone: tz})
DateTimeFormat(locale, tz) ==
    IF locale \notin WellFormedLocales
    THEN Throw(<<"Incorrect locale information provided">>)
    ELSE IF tz \notin ValidTimeZones
    THEN Throw(<<"Invalid time zone specified: ", tz>>)
    ELSE Ok([locale |-> ResolveLocale(locale), timeZone |-> tz])

\* Intl.DateTimeFormat.prototype.format: the text is determined by the
\* resolved locale, the time zone and the instant.
FormatDate(fmt, now) ==
    <<"date", fmt.locale, fmt.timeZone>> \o Pad4(now.day) \o Pad4(now.ms \div 100000)

\* ToString of a JavaScript value.
JsToString(v) ==
    IF v.type = "string" THEN v.val
    ELSE "function () { [native code] }"

\* new Intl.NumberFormat(locale, {style: "currency", currency})
NumberFormat(locale, currency) ==
    IF locale \notin WellFormedLocales
    THEN Throw(<<"Incorrect locale information provided">>)
    ELSE IF JsToString(currency) \notin WellFormedCurrencies
    THEN Throw(<<"Invalid currency code : ", JsToString(currency)>>)
    ELSE Ok([locale |-> ResolveLocale(locale), currency |-> JsToString(currency)])

\* Intl.NumberFormat.prototype.format(12345.67)
FormatNumber(fmt) == <<"currency", fmt.locale, fmt.currency, "12345.67">>

(***************************************************************************)
(* getCurrencyForLocale (server.ts 54-68).  currencyMap is an object       *)
(* literal, so a lookup also finds the properties it inherits from         *)
(* Object.prototype; those are functions, which are truthy.                *)
(***************************************************************************)
currencyMap ==
    [k \in {"en-US", "en-GB", "fr-FR", "de-DE", "ja-JP", "zh-CN", "es-ES",
            "it-IT", "pt-BR", "ko-KR"} |->
        CASE k = "en-US" -> "USD"
          [] k = "en-GB" -> "GBP"
          [] k \in {"fr-FR", "de-DE", "es-ES", "it-IT"} -> "EUR"
          [] k = "ja-JP" -> "JPY"
          [] k = "zh-CN" -> "CNY"
          [] k = "pt-BR" -> "BRL"
          [] k = "ko-KR" -> "KRW"]

ObjectPrototypeKeys == {"constructor", "toString", "valueOf", "hasOwnProperty",
                        "isPrototypeOf", "propertyIsEnumerable", "toLocaleString"}

Str(s) == [type |-> "string", val |-> s]

\* The lookup without its || "USD" fallback.
getCurrencyForLocale_NoFallback(locale) ==
    IF locale \in DOMAIN currencyMap THEN Str(currencyMap[locale])
    ELSE [type |-> "undefined", val |-> locale]

getCurrencyForLocale(locale) ==
    IF locale \in DOMAIN currencyMap THEN Str(currencyMap[locale])
    ELSE IF locale \in ObjectPrototypeKeys THEN [type |-> "function", val |-> locale]
    ELSE Str("USD")

(***************************************************************************)
(* The route handlers.  A handler is synchronous: it runs from the         *)
(* dispatch of the request to res.json without yielding to the event loop. *)
(***************************************************************************)
Response(status, body) == [status |-> status, body |-> body]

\* app.get("/api/health") (server.ts 11-13): _req is not read.
HealthHandler(query, now, environ) ==
    Response(200, [status |-> "ok", timestamp |-> toISOString(now)])

\* The catch block answering with a server error.
CatchBlock_Status500(error) ==
    [status |-> 500, body |-> [error |-> "Invalid locale or timezone",
                               message |-> error.message]]

\* The catch block answering with the stack of the error as well.
CatchBlock_WithStack(error) ==
    Response(400, [error |-> "Invalid locale or timezone",
                   message |-> error.message,
                   stack |-> <<"RangeError", "at new DateTimeFormat">>])

\* The catch block answering with a fixed message.
CatchBlock_FixedMessage(error) ==
    Response(400, [error |-> "Invalid locale or timezone",
                   message |-> <<"Bad Request">>])

\* The catch block (server.ts 45-50).  Everything thrown inside the try is an
\* Error; String(error) of any other value is kept as one opaque text.
CatchBlock(error) ==
    Response(400, [error |-> "Invalid locale or timezone",
                   message |-> IF error.isError THEN error.message
                               ELSE <<"[object Object]">>])

\* The two locals with the query parameters taken in the wrong order.
TimeLocals_Swapped(query) ==
    [locale |-> OrDefault(query, "tz", "en-US"),
     tz |-> OrDefault(query, "locale", "UTC")]

\* Both locals defaulted as soon as one parameter is missing.
TimeLocals_JointDefault(query) ==
    IF OrDefault(query, "locale", "") = "" \/ OrDefault(query, "tz", "") = ""
    THEN [locale |-> "en-US", tz |-> "UTC"]
    ELSE [locale |-> query["locale"], tz |-> query["tz"]]

\* The locals locale and tz of the /api/time handler (server.ts 17-18).
TimeLocals(query) ==
    [locale |-> OrDefault(query, "locale", "en-US"),
     tz |-> OrDefault(query, "tz", "UTC")]

\* The Intl constructors the /api/time handler calls, with the arguments it
\* passes, in order (server.ts 25-35): the second is reached only when the
\* first did not throw.
TimeIntlCalls(query) ==
    LET l == TimeLocals(query)
    IN <<[fn |-> "Intl.DateTimeFormat", locale |-> l.locale, arg |-> l.tz]>>
       \o (IF DateTimeFormat(l.locale, l.tz).ok
           THEN <<[fn |-> "Intl.NumberFormat", locale |-> l.locale,
                   arg |-> JsToString(getCurrencyForLocale(l.locale))]>>
           ELSE <<>>)

\* The number formatting moved out of the try block: its failure reaches
\* the default error handler of Express.
TimeHandler_NumberOutsideTry(query, now, environ) ==
    LET locale == TimeLocals(query).locale
        tz == TimeLocals(query).tz
        dtf == DateTimeFormat(locale, tz)
        nf == NumberFormat(locale, getCurrencyForLocale(locale))
    IN IF ~dtf.ok THEN CatchBlock(dtf.error)
       ELSE IF ~nf.ok
       THEN Response(500, [locale |-> locale, tz |-> tz,
                           formatted |-> FormatDate(dtf.value, now)])
       ELSE Response(200,
                [locale |-> locale,
                 tz |-> tz,
                 formatted |-> FormatDate(dtf.value, now),
                 numberExample |-> FormatNumber(nf.value),
                 timestamp |-> toISOString(now),
                 icuDataPath |-> OrDefault(environ, "NODE_ICU_DATA", "built-in")])

\* The environment variable used whenever it is set, even to the empty
\* string (?? in place of ||).
TimeHandler_IcuWhenSet(query, now, environ) ==
    LET locale == TimeLocals(query).locale
        tz == TimeLocals(query).tz
        dtf == DateTimeFormat(locale, tz)
        nf == NumberFormat(locale, getCurrencyForLocale(locale))
    IN IF ~dtf.ok THEN CatchBlock(dtf.error)
       ELSE IF ~nf.ok THEN CatchBlock(nf.error)
       ELSE Response(200,
                [locale |-> locale,
                 tz |-> tz,
                 formatted |-> FormatDate(dtf.value, now),
                 numberExample |-> FormatNumber(nf.value),
                 timestamp |-> toISOString(now),
                 icuDataPath |-> IF Has(environ, "NODE_ICU_DATA")
                                 THEN environ["NODE_ICU_DATA"] ELSE "built-in"])

\* The timestamp taken from a second reading of the clock, one millisecond
\* after the reading that is formatted.
TimeHandler_SecondReading(query, now, environ) ==
    LET locale == TimeLocals(query).locale
        tz == TimeLocals(query).tz
        dtf == DateTimeFormat(locale, tz)
        nf == NumberFormat(locale, getCurrencyForLocale(locale))
        later == IF now.ms = 86399999 THEN [day |-> now.day + 1, ms |-> 0]
                 ELSE [day |-> now.day, ms |-> now.ms + 1]
    IN IF ~dtf.ok THEN CatchBlock(dtf.error)
       ELSE IF ~nf.ok THEN CatchBlock(nf.error)
       ELSE Response(200,
                [locale |-> locale,
                 tz |-> tz,
                 formatted |-> FormatDate(dtf.value, now),
                 numberExample |-> FormatNumber(nf.value),
                 timestamp |-> toISOString(later),
                 icuDataPath |-> OrDefault(environ, "NODE_ICU_DATA", "built-in")])

\* app.get("/api/time") (server.ts 16-51).
TimeHandler(query, now, environ) ==
    LET locale == TimeLocals(query).locale
        tz == TimeLocals(query).tz
        dtf == DateTimeFormat(locale, tz)
        nf == NumberFormat(locale, getCurrencyForLocale(locale))
    IN IF ~dtf.ok THEN CatchBlock(dtf.error)
       ELSE IF ~nf.ok THEN CatchBlock(nf.error)
       ELSE Response(200,
                [locale |-> locale,
                 tz |-> tz,
                 formatted |-> FormatDate(dtf.value, now),
                 numberExample |-> FormatNumber(nf.value),
                 timestamp |-> toISOString(now),
                 icuDataPath |-> OrDefault(environ, "NODE_ICU_DATA", "built-in")])

\* Routing with the handler's locale and tz kept in module-level variables
\* that the previous request has left set.
Dispatch_SharedLocals(req, now, environ) ==
    LET q == IF log = <<>> THEN req.query ELSE log[Len(log)].req.query
    IN IF req.path = "/api/health" THEN HealthHandler(q, now, environ)
       ELSE TimeHandler(q, now, environ)

\* Express routing of GET requests to the two registered routes.
Dispatch(req, now, environ) ==
    IF req.path = "/api/health" THEN HealthHandler(req.query, now, environ)
    ELSE TimeHandler(req.query, now, environ)

\* The Intl constructor calls of the handler the request is routed to.
DispatchIntlCalls(req) ==
    IF req.path = "/api/health" THEN <<>> ELSE TimeIntlCalls(req.query)

(***************************************************************************)
(* The requests of the model.                                              *)
(***************************************************************************)
QueryLocales == {"", "ar-SA", "toString", "not a locale"}
QueryTimeZones == {"", "Asia/Tokyo", "Not/AZone"}

Queries ==
    {EmptyObject}
    \cup {[k \in {"locale"} |-> l] : l \in QueryLocales}
    \cup {[k \in {"tz"} |-> z] : z \in QueryTimeZones}
    \cup {[k \in {"locale", "tz"} |-> IF k = "locale" THEN lz[1] ELSE lz[2]] :
             lz \in QueryLocales \X QueryTimeZones}

Requests ==
    {[path |-> "/api/time", query |-> q] : q \in Queries}
    \cup {[path |-> "/api/health", query |-> q] :
             q \in {EmptyObject, [k \in {"tz"} |-> "Not/AZone"]}}

Environments ==
    {EmptyObject, [k \in {"NODE_ICU_DATA"} |-> ""],
     [k \in {"NODE_ICU_DATA"} |-> "/usr/share/icu"]}

\* 2024-02-28T23:59:59.999Z, one millisecond before a leap day.
StartInstants == {[day |-> 19781, ms |-> 86399999]}

ScanIdle ==
    /\ pc = "idle" /\ argv = <<>> /\ trivyInstalled = TRUE
    /\ IMAGE = "" /\ OUTPUT_FILE = "" /\ stdout = <<>> /\ calls = <<>>
    /\ running = {} /\ ended = <<>> /\ files = {} /\ exitStatus = -1

\* The state after app.listen (server.ts 70-74).
Init ==
    /\ listening = TRUE
    /\ env \in Environments
    /\ clock \in StartInstants
    /\ ticks = 0
    /\ pending = EmptyBag
    /\ log = <<>>
    /\ ScanIdle

\* The wall clock advances by one millisecond.
Tick ==
    /\ ticks < MaxTicks
    /\ ticks' = ticks + 1
    /\ clock' = IF clock.ms = 86399999 THEN [day |-> clock.day + 1, ms |-> 0]
                ELSE [day |-> clock.day, ms |-> clock.ms + 1]
    /\ UNCHANGED <<listening, env, pending, log>>
    /\ UNCHANGED scanVars

\* A client sends a request; it waits for the event loop.
Receive(req) ==
    /\ listening
    /\ BagCardinality(pending) + Len(log) < MaxRequests
    /\ pending' = pending (+) SetToBag({req})
    /\ UNCHANGED <<listening, env, clock, ticks, log>>
    /\ UNCHANGED scanVars

\* The handler ending the process when it has answered with an error.
Handle_ExitOnError(req) ==
    /\ listening
    /\ BagIn(req, pending)
    /\ log' = Append(log, [req |-> req, now |-> clock, env |-> env,
                           intl |-> DispatchIntlCalls(req),
                           res |-> Dispatch(req, clock, env)])
    /\ pending' = pending (-) SetToBag({req})
    /\ listening' = (Dispatch(req, clock, env).status = 200)
    /\ UNCHANGED <<env, clock, ticks>>
    /\ UNCHANGED scanVars

\* The event loop dispatches one of the waiting requests, in any order, and
\* its handler answers it.
Handle(req) ==
    /\ listening
    /\ BagIn(req, pending)
    /\ log' = Append(log, [req |-> req, now |-> clock, env |-> env,
                           intl |-> DispatchIntlCalls(req),
                           res |-> Dispatch(req, clock, env)])
    /\ pending' = pending (-) SetToBag({req})
    /\ UNCHANGED <<listening, env, clock, ticks>>
    /\ UNCHANGED scanVars

Next ==
    \/ Tick
    \/ \E req \in Requests : Receive(req)
    \/ \E req \in Requests : Handle(req)

Spec == Init /\ [][Next]_vars

(***************************************************************************)
(* Properties of the server, checked under Spec.                           *)
(***************************************************************************)
\* The positions in the log of all exchanges, and of those of /api/time.
Exchanges == 1..Len(log)

TimeExchanges == {i \in 1..Len(log) : log[i].req.path = "/api/time"}

\* A text built from pieces is non-empty when one of its pieces is.
NonEmptyText(t) == \E i \in 1..Len(t) : t[i] # ""

Digits == {"0", "1", "2", "3", "4", "5", "6", "7", "8", "9"}

MonthFields == {Pad2(m) : m \in 1..12}
DayFields == {Pad2(d) : d \in 1..31}
HourFields == {Pad2(h) : h \in 0..23}
SixtyFields == {Pad2(m) : m \in 0..59}

\* The shape YYYY-MM-DDTHH:mm:ss.sssZ.
IsISO8601(t) ==
    /\ Len(t) = 24
    /\ t[5] = "-" /\ t[8] = "-" /\ t[11] = "T" /\ t[14] = ":" /\ t[17] = ":"
    /\ t[20] = "." /\ t[24] = "Z"
    /\ \A i \in {1, 2, 3, 4, 21, 22, 23} : t[i] \in Digits
    /\ <<t[6], t[7]>> \in MonthFields
    /\ <<t[9], t[10]>> \in DayFields
    /\ <<t[12], t[13]>> \in HourFields
    /\ <<t[15], t[16]>> \in SixtyFields
    /\ <<t[18], t[19]>> \in SixtyFields

SupportedPair(q) ==
    /\ Has(q, "locale") /\ q["locale"] \in SupportedLocales
    /\ Has(q, "tz") /\ q["tz"] \in ValidTimeZones

\* C1: every /api/time request that passes a supported locale and a valid
\* time zone is answered 200 with non-empty formatted and numberExample.
C1_SupportedPairOk ==
    \A ix \in TimeExchanges : LET e == log[ix] IN
        SupportedPair(e.req.query) =>
            /\ e.res.status = 200
            /\ Has(e.res.body, "formatted") /\ NonEmptyText(e.res.body.formatted)
            /\ Has(e.res.body, "numberExample")
            /\ NonEmptyText(e.res.body.numberExample)

\* A supported pair whose locale has no entry in currencyMap was answered.
C1_Witness ==
    \E ix \in TimeExchanges : LET e == log[ix] IN
        /\ SupportedPair(e.req.query)
        /\ e.req.query["locale"] \notin DOMAIN currencyMap
        /\ e.res.status = 200

BadRequestWithMessage(res) ==
    /\ res.status = 400
    /\ Has(res.body, "message") /\ NonEmptyText(res.body.message)

\* C2 as stated: every tz value that is not a valid time zone identifier,
\* with any locale, is answered 400 with a non-empty message.
C2_AnyMalformedTz ==
    \A ix \in TimeExchanges : LET e == log[ix] IN
        (Has(e.req.query, "tz") /\ e.req.query["tz"] \notin ValidTimeZones)
            => BadRequestWithMessage(e.res)

\* C2 as amended: every NON-EMPTY tz value that is not a valid time zone
\* identifier, with any locale, is answered 400 with a non-empty message
\* (an empty tz is replaced by UTC before it is validated).
C2_NonEmptyMalformedTz ==
    \A ix \in TimeExchanges : LET e == log[ix] IN
        (/\ Has(e.req.query, "tz")
         /\ e.req.query["tz"] # ""
         /\ e.req.query["tz"] \notin ValidTimeZones)
            => BadRequestWithMessage(e.res)

\* "Not/AZone" was passed together with a locale that is itself valid.
C2_Witness ==
    \E ix \in TimeExchanges : LET e == log[ix] IN
        /\ Has(e.req.query, "tz") /\ e.req.query["tz"] = "Not/AZone"
        /\ Has(e.req.query, "locale") /\ e.req.query["locale"] \in SupportedLocales
        /\ BadRequestWithMessage(e.res)

\* C3: a /api/time request without locale and without tz is formatted for
\* en-US in UTC, and the 200 response reports these two values.
C3_DefaultsWhenOmitted ==
    \A ix \in TimeExchanges : LET e == log[ix] IN
        (~Has(e.req.query, "locale") /\ ~Has(e.req.query, "tz")) =>
            /\ e.res.status = 200
            /\ e.res.body.locale = "en-US"
            /\ e.res.body.tz = "UTC"
            /\ e.res.body.formatted
                  = FormatDate([locale |-> "en-US", timeZone |-> "UTC"], e.now)
            /\ e.res.body.numberExample
                  = FormatNumber([locale |-> "en-US", currency |-> "USD"])

C3_Witness ==
    \E ix \in TimeExchanges : LET e == log[ix] IN
        /\ e.req.query = EmptyObject
        /\ e.res.status = 200

\* C4: every /api/health request is answered 200 with status "ok" and an
\* ISO-8601 timestamp, whatever its query and whatever was answered before.
C4_HealthAlwaysOk ==
    \A ix \in Exchanges : LET e == log[ix] IN
        e.req.path = "/api/health" =>
            /\ e.res.status = 200
            /\ e.res.body.status = "ok"
            /\ IsISO8601(e.res.body.timestamp)

\* A health request carrying a query was answered after a failed time request.
C4_Witness ==
    \E i, j \in 1..Len(log) :
        /\ i < j
        /\ log[i].req.path = "/api/time" /\ log[i].res.status = 400
        /\ log[j].req.path = "/api/health" /\ log[j].req.query # EmptyObject
        /\ log[j].res.status = 200

\* What a server that has answered nothing yet answers to the request of
\* exchange e at e's instant and environment.
FreshResponse(e) ==
    IF e.req.path = "/api/health" THEN HealthHandler(e.req.query, e.now, e.env)
    ELSE TimeHandler(e.req.query, e.now, e.env)

Answered400 ==
    /\ Len(log') = Len(log) + 1
    /\ log'[Len(log')].req.path = "/api/time"
    /\ log'[Len(log')].res.status = 400

\* C9: a /api/time request answered 400 leaves the server running with its
\* environment and the other waiting requests untouched, and every request
\* answered after it gets the answer a server that never saw the failed
\* request gives.
C9_ContinuesAfter400 ==
    /\ [][Answered400 =>
            /\ listening'
            /\ env' = env
            /\ SubSeq(log', 1, Len(log)) = log
            /\ pending' = pending (-) SetToBag({log'[Len(log')].req})]_vars
    /\ [](\A i, j \in 1..Len(log) :
            (i < j /\ log[i].req.path = "/api/time" /\ log[i].res.status = 400)
                => log[j].res = FreshResponse(log[j]))

\* A request was answered 200 after a failed /api/time request, the server
\* still being up.
C9_Witness ==
    /\ listening
    /\ \E i, j \in 1..Len(log) :
        /\ i < j
        /\ log[i].req.path = "/api/time" /\ log[i].res.status = 400
        /\ log[j].req.path = "/api/time" /\ log[j].res.status = 200

\* C10: in whatever order the waiting requests are dispatched, each response
\* is determined by the request's own query, the clock reading and the
\* environment: the log changes only by one exchange added at its end, whose
\* response is what the handler computes from these alone, and two
\* exchanges that agree on them agree on the response.
C10_ResponseDependsOnOwnInputs ==
    /\ [][\/ log' = log
          \/ /\ Len(log') = Len(log) + 1
             /\ SubSeq(log', 1, Len(log)) = log
             /\ log'[Len(log')].res = FreshResponse(log'[Len(log')])]_vars
    /\ [](\A i \in 1..Len(log) : \A j \in 1..(i - 1) :
            (/\ log[i].req = log[j].req
             /\ log[i].now = log[j].now
             /\ log[i].env = log[j].env) => log[i].res = log[j].res)

\* Two different /api/time requests, one failing and one not, were answered
\* at the same instant.
C10_Witness ==
    /\ Len(log) = 2
    /\ log[1].req # log[2].req
    /\ log[1].req.path = "/api/time" /\ log[2].req.path = "/api/time"
    /\ log[1].now = log[2].now
    /\ log[1].res.status # log[2].res.status

OkFields == {"locale", "tz", "formatted", "numberExample", "timestamp", "icuDataPath"}

ErrorFields == {"error", "message"}

\* C11: every response of /api/time is either 200 with exactly the fields
\* locale, tz, formatted, numberExample, timestamp, icuDataPath, or 400 with
\* exactly the fields error and message.
C11_TwoResponseShapes ==
    \A ix \in TimeExchanges : LET e == log[ix] IN
        \/ e.res.status = 200 /\ DOMAIN e.res.body = OkFields
        \/ e.res.status = 400 /\ DOMAIN e.res.body = ErrorFields

\* Both shapes have been produced.
C11_Witness ==
    /\ \E ix \in TimeExchanges : LET e == log[ix] IN e.res.status = 200 /\ DOMAIN e.res.body = OkFields
    /\ \E ix \in TimeExchanges : LET e == log[ix] IN e.res.status = 400 /\ DOMAIN e.res.body = ErrorFields

BothSupplied(q) ==
    /\ Has(q, "locale") /\ q["locale"] # ""
    /\ Has(q, "tz") /\ q["tz"] # ""

\* C12: when the query supplies a non-empty locale and a non-empty tz, the
\* date formatting constructor is called with exactly these two strings, and
\* a 200 response echoes them in its locale and tz fields.
C12_ParametersPassedThrough ==
    \A ix \in TimeExchanges : LET e == log[ix] IN
        BothSupplied(e.req.query) =>
            /\ Len(e.intl) >= 1
            /\ e.intl[1] = [fn |-> "Intl.DateTimeFormat",
                            locale |-> e.req.query["locale"],
                            arg |-> e.req.query["tz"]]
            /\ e.res.status = 200 =>
                  /\ e.res.body.locale = e.req.query["locale"]
                  /\ e.res.body.tz = e.req.query["tz"]

\* A supplied pair was echoed by a 200 response, and a supplied pair with a
\* locale Intl does not know reached the constructor as given.
C12_Witness ==
    /\ \E ix \in TimeExchanges : LET e == log[ix] IN
          /\ BothSupplied(e.req.query) /\ e.res.status = 200
          /\ e.res.body.locale = "ar-SA" /\ e.res.body.tz = "Asia/Tokyo"
    /\ \E ix \in TimeExchanges : LET e == log[ix] IN
          /\ BothSupplied(e.req.query) /\ e.res.status = 400
          /\ e.intl[1].locale = "not a locale"

\* The date formatting of exchange e succeeded and its number formatting
\* threw.
NumberFailedAfterDate(e) ==
    LET l == TimeLocals(e.req.query)
    IN /\ DateTimeFormat(l.locale, l.tz).ok
       /\ ~NumberFormat(l.locale, getCurrencyForLocale(l.locale)).ok

\* C15: a /api/time request whose number formatting throws after its date
\* formatting succeeded is answered with the 400 error object and nothing of
\* the 200 body; and a request leaves the waiting requests exactly when one
\* response is added for it.
C15_LateFailureIs400 ==
    /\ [](\A ix \in TimeExchanges : LET e == log[ix] IN
            NumberFailedAfterDate(e) =>
                /\ e.res.status = 400
                /\ DOMAIN e.res.body = ErrorFields)
    /\ [][/\ Len(log') \in {Len(log), Len(log) + 1}
          /\ Len(log') = Len(log) + 1 =>
                /\ SubSeq(log', 1, Len(log)) = log
                /\ BagIn(log'[Len(log')].req, pending)
                /\ pending' = pending (-) SetToBag({log'[Len(log')].req})
          /\ Len(log') = Len(log) =>
                BagCardinality(pending') >= BagCardinality(pending)]_vars

\* A request with a locale that is a well-formed tag and an inherited
\* property name of currencyMap was answered 400 by the number formatting.
C15_Witness ==
    \E ix \in TimeExchanges : LET e == log[ix] IN
        /\ NumberFailedAfterDate(e)
        /\ Len(e.intl) = 2
        /\ e.res.status = 400
        /\ e.res.body.message[1] = "Invalid currency code : "

CurrencyKeys == {"en-US", "en-GB", "fr-FR", "de-DE", "ja-JP", "zh-CN", "es-ES",
                 "it-IT", "pt-BR", "ko-KR"}

CurrencyCodes == {"USD", "GBP", "EUR", "JPY", "CNY", "BRL", "KRW"}

\* C16: for every locale a request is formatted with, getCurrencyForLocale
\* returns "USD" when the locale is none of the ten keys of the currency
\* map and the mapped code when it is one, hence always one of the seven
\* codes.
C16_CurrencyIsACode ==
    \A ix \in TimeExchanges : LET e == log[ix] IN
        LET l == TimeLocals(e.req.query).locale
            c == getCurrencyForLocale(l)
        IN /\ l \notin CurrencyKeys => c = [type |-> "string", val |-> "USD"]
           /\ l \in CurrencyKeys => c = [type |-> "string", val |-> currencyMap[l]]
           /\ c.type = "string" /\ c.val \in CurrencyCodes

\* The error the try block of exchange e threw.
ThrownError(e) ==
    LET l == TimeLocals(e.req.query)
        dtf == DateTimeFormat(l.locale, l.tz)
    IN IF ~dtf.ok THEN dtf.error
       ELSE NumberFormat(l.locale, getCurrencyForLocale(l.locale)).error

\* C17: in every 400 response of /api/time the error field is the fixed
\* string "Invalid locale or timezone", whichever formatting call failed, and
\* the message field is the message of the caught error.
C17_ErrorBody ==
    \A ix \in TimeExchanges : LET e == log[ix] IN
        e.res.status = 400 =>
            /\ e.res.body.error = "Invalid locale or timezone"
            /\ ThrownError(e).isError
            /\ e.res.body.message = ThrownError(e).message

\* One 400 came from the date formatting and one from the number formatting.
C17_Witness ==
    /\ \E ix \in TimeExchanges : LET e == log[ix] IN
          /\ e.res.status = 400 /\ Len(e.intl) = 1
          /\ e.res.body.message = <<"Invalid time zone specified: ", "Not/AZone">>
    /\ \E ix \in TimeExchanges : LET e == log[ix] IN
          /\ e.res.status = 400 /\ Len(e.intl) = 2

Supplied(q, key) == Has(q, key) /\ q[key] # ""

\* C18: locale and tz are defaulted independently: each is its query value
\* when that is a non-empty string and its default (en-US, UTC) when it is
\* absent or empty, whatever the other parameter is.
C18_IndependentDefaults ==
    \A ix \in TimeExchanges : LET e == log[ix] IN
        LET q == e.req.query
            locale == IF Supplied(q, "locale") THEN q["locale"] ELSE "en-US"
            tz == IF Supplied(q, "tz") THEN q["tz"] ELSE "UTC"
        IN /\ e.intl[1] = [fn |-> "Intl.DateTimeFormat", locale |-> locale, arg |-> tz]
           /\ e.res.status = 200 =>
                 /\ e.res.body.locale = locale
                 /\ e.res.body.tz = tz

\* An empty locale was defaulted while the tz was used as given, and an
\* absent tz was defaulted while the locale was used as given.
C18_Witness ==
    /\ \E ix \in TimeExchanges : LET e == log[ix] IN
          /\ Has(e.req.query, "locale") /\ e.req.query["locale"] = ""
          /\ Supplied(e.req.query, "tz")
          /\ e.res.status = 200
          /\ e.res.body.locale = "en-US" /\ e.res.body.tz = "Asia/Tokyo"
    /\ \E ix \in TimeExchanges : LET e == log[ix] IN
          /\ ~Has(e.req.query, "tz") /\ Supplied(e.req.query, "locale")
          /\ e.res.status = 200
          /\ e.res.body.locale = "ar-SA" /\ e.res.body.tz = "UTC"

\* C25: in every 200 response of /api/time, icuDataPath is the value of
\* NODE_ICU_DATA in the environment of the server when the variable is set
\* and not empty, and "built-in" otherwise; it is the same in all of them,
\* whatever the queries.
C25_IcuDataPathFromEnv ==
    \A ix \in TimeExchanges : LET e == log[ix] IN
        e.res.status = 200 =>
            /\ e.res.body.icuDataPath
                  = IF "NODE_ICU_DATA" \in DOMAIN env /\ env["NODE_ICU_DATA"] # ""
                    THEN env["NODE_ICU_DATA"] ELSE "built-in"
            /\ \A jx \in TimeExchanges :
                  log[jx].res.status = 200 =>
                      log[jx].res.body.icuDataPath = e.res.body.icuDataPath

\* With NODE_ICU_DATA set to the empty string, two requests with different
\* queries were answered 200 with "built-in".
C25_Witness ==
    /\ "NODE_ICU_DATA" \in DOMAIN env /\ env["NODE_ICU_DATA"] = ""
    /\ \E ix, jx \in TimeExchanges :
          /\ log[ix].req.query # log[jx].req.query
          /\ log[ix].res.status = 200 /\ log[jx].res.status = 200
          /\ log[ix].res.body.icuDataPath = "built-in"

\* C26: in every 200 response of /api/time, timestamp and formatted are
\* both computed from one instant, the reading of the clock taken when the
\* request is handled: timestamp is its ISO-8601 text and formatted is the
\* formatter's text of the same instant.
C26_OneClockReading ==
    \A ix \in TimeExchanges : LET e == log[ix] IN
        e.res.status = 200 =>
            /\ e.res.body.timestamp = toISOString(e.now)
            /\ e.res.body.formatted
                  = FormatDate([locale |-> ResolveLocale(e.res.body.locale),
                                timeZone |-> e.res.body.tz], e.now)

\* Two requests were answered 200 on either side of a tick of the clock, so
\* that their timestamps and their formatted dates differ.
C26_Witness ==
    \E ix, jx \in TimeExchanges :
        /\ log[ix].res.status = 200 /\ log[jx].res.status = 200
        /\ log[ix].now # log[jx].now
        /\ log[ix].req = log[jx].req
        /\ log[ix].res.body.timestamp # log[jx].res.body.timestamp
        /\ log[ix].res.body.formatted # log[jx].res.body.formatted

(***************************************************************************)
(* scripts/scan-image.sh.  The script runs under set -euo pipefail: a      *)
(* simple command that exits non-zero ends the script with that status,    *)
(* unless it is guarded (if, ||).  One action runs the script from one     *)
(* point where it waits for an external process to the next.               *)
(***************************************************************************)
ArgValues == {"", "node:20-bookworm", "trivy-results.json"}

ArgLists == UNION {[1..n -> ArgValues] : n \in 0..MaxArgs}

ExitStatuses == {0, 1}

Proc(cmd, format, output, image) ==
    [cmd |-> cmd, format |-> format, output |-> output, image |-> image]

\* Line 67: docker pull "$IMAGE" 2>&1 | grep -E "(Digest|Status|...)"
PullCmd(image) == Proc("docker pull", "", "", image)
GrepCmd == Proc("grep", "", "", "")

\* The JSON run without its -o option.
JsonScanCmd_NoOutput(output, image) == Proc("trivy image", "json", "", image)

\* Lines 79-84: trivy image --severity HIGH,CRITICAL --no-progress
\*              --format json -o "$OUTPUT_FILE" "$IMAGE"
JsonScanCmd(output, image) == Proc("trivy image", "json", output, image)

\* The terminal run asking for JSON as well.
TableScanCmd_Json(image) == Proc("trivy image", "json", "", image)

\* Lines 87-91 and 97-101: trivy image ... --format table "$IMAGE"
TableScanCmd(image) == Proc("trivy image", "table", "", image)

\* Lines 33-40 and 46-53: what the two failed checks print.
TrivyMissingMessage == <<"Error: Trivy is not installed", "Install Trivy:">>
\* The error line alone, without the usage text.
UsageMessage_NoUsage == <<"Error: No image name provided">>

UsageMessage == <<"Error: No image name provided", "Usage:", "Examples:">>

ServerIdle ==
    /\ listening = FALSE /\ env = EmptyObject
    /\ clock \in StartInstants /\ ticks = 0
    /\ pending = EmptyBag /\ log = <<>>

ScanInit ==
    /\ pc = "start"
    /\ argv \in ArgLists
    /\ trivyInstalled \in BOOLEAN
    /\ IMAGE = ""
    /\ OUTPUT_FILE = ""
    /\ stdout = <<>>
    /\ calls = <<>>
    /\ running = {}
    /\ ended = <<>>
    /\ files \in SUBSET {"trivy-results.json"}
    /\ exitStatus = -1
    /\ ServerIdle

\* exit N
Exit(status) ==
    /\ pc' = "exited"
    /\ exitStatus' = status

\* The two checks in the opposite order: the arguments are looked at first.
CheckTrivy_ArgsFirst ==
    /\ pc = "start"
    /\ IF Len(argv) = 0
       THEN /\ stdout' = stdout \o UsageMessage
            /\ Exit(1)
            /\ UNCHANGED <<calls, ended>>
       ELSE IF ~trivyInstalled
       THEN /\ stdout' = stdout \o TrivyMissingMessage
            /\ calls' = Append(calls, Proc("lsb_release", "", "", ""))
            /\ \E st \in ExitStatuses :
                   ended' = Append(ended, [proc |-> Proc("lsb_release", "", "", ""),
                                           status |-> st])
            /\ Exit(1)
       ELSE /\ pc' = "checkArgs"
            /\ UNCHANGED <<stdout, calls, ended, exitStatus>>
    /\ UNCHANGED <<argv, trivyInstalled, IMAGE, OUTPUT_FILE, running, files>>
    /\ UNCHANGED serverVars

\* The check reporting the missing scanner without the exit 1 of line 41.
CheckTrivy_NoExit ==
    /\ pc = "start"
    /\ IF ~trivyInstalled
       THEN /\ stdout' = stdout \o TrivyMissingMessage
            /\ calls' = Append(calls, Proc("lsb_release", "", "", ""))
            /\ \E st \in ExitStatuses :
                   ended' = Append(ended, [proc |-> Proc("lsb_release", "", "", ""),
                                           status |-> st])
       ELSE UNCHANGED <<stdout, calls, ended>>
    /\ pc' = "checkArgs"
    /\ UNCHANGED <<argv, trivyInstalled, IMAGE, OUTPUT_FILE, running, files, exitStatus>>
    /\ UNCHANGED serverVars

\* Lines 31-42: if ! command -v trivy.  The echo of line 38 is
\* double-quoted, so it runs $(lsb_release -sc); the status of a command
\* substitution inside an argument does not end the script.
CheckTrivy ==
    /\ pc = "start"
    /\ IF ~trivyInstalled
       THEN /\ stdout' = stdout \o TrivyMissingMessage
            /\ calls' = Append(calls, Proc("lsb_release", "", "", ""))
            /\ \E st \in ExitStatuses :
                   ended' = Append(ended, [proc |-> Proc("lsb_release", "", "", ""),
                                           status |-> st])
            /\ Exit(1)
       ELSE /\ pc' = "checkArgs"
            /\ UNCHANGED <<stdout, calls, ended, exitStatus>>
    /\ UNCHANGED <<argv, trivyInstalled, IMAGE, OUTPUT_FILE, running, files>>
    /\ UNCHANGED serverVars

\* The output file taken from the last argument instead of the second.
CheckArgs_LastArg ==
    /\ pc = "checkArgs"
    /\ IF Len(argv) = 0
       THEN /\ stdout' = stdout \o UsageMessage
            /\ Exit(1)
            /\ UNCHANGED <<IMAGE, OUTPUT_FILE>>
       ELSE /\ IMAGE' = argv[1]
            /\ OUTPUT_FILE' = IF Len(argv) >= 2 THEN argv[Len(argv)] ELSE ""
            /\ stdout' = Append(stdout, "Scanning Image:")
            /\ pc' = "pull"
            /\ UNCHANGED exitStatus
    /\ UNCHANGED <<argv, trivyInstalled, calls, running, ended, files>>
    /\ UNCHANGED serverVars

\* Lines 44-63: if [ $# -eq 0 ], then IMAGE, OUTPUT_FILE and the banner.
CheckArgs ==
    /\ pc = "checkArgs"
    /\ IF Len(argv) = 0
       THEN /\ stdout' = stdout \o UsageMessage
            /\ Exit(1)
            /\ UNCHANGED <<IMAGE, OUTPUT_FILE>>
       ELSE /\ IMAGE' = argv[1]
            /\ OUTPUT_FILE' = IF Len(argv) >= 2 THEN argv[2] ELSE ""
            /\ stdout' = Append(stdout, "Scanning Image:")
            /\ pc' = "pull"
            /\ UNCHANGED exitStatus
    /\ UNCHANGED <<argv, trivyInstalled, calls, running, ended, files>>
    /\ UNCHANGED serverVars

\* Lines 65-67: the pipeline docker pull "$IMAGE" 2>&1 | grep -E ... starts;
\* both of its processes run at once.
PullStart ==
    /\ pc = "pull"
    /\ stdout' = Append(stdout, "Ensuring image is available locally...")
    /\ calls' = calls \o <<PullCmd(IMAGE), GrepCmd>>
    /\ running' = {PullCmd(IMAGE), GrepCmd}
    /\ pc' = "pulling"
    /\ UNCHANGED <<argv, trivyInstalled, IMAGE, OUTPUT_FILE, ended, files, exitStatus>>
    /\ UNCHANGED serverVars

\* The script going on to the scan as soon as one side of the pipeline has
\* ended.
PullExit_NoWait(p, status) ==
    /\ pc = "pulling"
    /\ p \in running
    /\ running' = running \ {p}
    /\ ended' = Append(ended, [proc |-> p, status |-> status])
    /\ pc' = "scan"
    /\ UNCHANGED <<argv, trivyInstalled, IMAGE, OUTPUT_FILE, stdout, calls, files,
                   exitStatus>>
    /\ UNCHANGED serverVars

\* The pull started again when the pipeline has failed.
PullExit_Retry(p, status) ==
    /\ pc = "pulling"
    /\ p \in running
    /\ running' = running \ {p}
    /\ ended' = Append(ended, [proc |-> p, status |-> status])
    /\ pc' = IF running' # {} THEN "pulling"
             ELSE IF status # 0 THEN "pull" ELSE "scan"
    /\ UNCHANGED <<argv, trivyInstalled, IMAGE, OUTPUT_FILE, stdout, calls, files,
                   exitStatus>>
    /\ UNCHANGED serverVars

\* The pipeline without its || true: under set -e and pipefail a failed
\* side ends the script when the pipeline has ended.
PullExit_Abort(p, status) ==
    /\ pc = "pulling"
    /\ p \in running
    /\ running' = running \ {p}
    /\ ended' = Append(ended, [proc |-> p, status |-> status])
    /\ IF running' # {}
       THEN pc' = "pulling" /\ UNCHANGED exitStatus
       ELSE IF status # 0 \/ \E i \in 1..Len(ended) : ended[i].status # 0
       THEN Exit(1)
       ELSE pc' = "scan" /\ UNCHANGED exitStatus
    /\ UNCHANGED <<argv, trivyInstalled, IMAGE, OUTPUT_FILE, stdout, calls, files>>
    /\ UNCHANGED serverVars

\* A process of the pipeline ends.  The status of the pipeline is guarded by
\* || true (line 67), so whatever the statuses the script goes on to line 71.
PullExit(p, status) ==
    /\ pc = "pulling"
    /\ p \in running
    /\ running' = running \ {p}
    /\ ended' = Append(ended, [proc |-> p, status |-> status])
    /\ pc' = IF running' = {} THEN "scan" ELSE "pulling"
    /\ UNCHANGED <<argv, trivyInstalled, IMAGE, OUTPUT_FILE, stdout, calls, files,
                   exitStatus>>
    /\ UNCHANGED serverVars

\* Lines 70-84 and 96-101: the branch on -n "$OUTPUT_FILE" and the start of
\* its first scanner run.
ScanStart ==
    /\ pc = "scan"
    /\ IF OUTPUT_FILE # ""
       THEN /\ stdout' = stdout \o <<"Running Trivy scan", "Saving results to:">>
            /\ calls' = Append(calls, JsonScanCmd(OUTPUT_FILE, IMAGE))
            /\ running' = {JsonScanCmd(OUTPUT_FILE, IMAGE)}
            /\ pc' = "jsonScan"
       ELSE /\ stdout' = Append(stdout, "Running Trivy scan")
            /\ calls' = Append(calls, TableScanCmd(IMAGE))
            /\ running' = {TableScanCmd(IMAGE)}
            /\ pc' = "tableScan"
    /\ UNCHANGED <<argv, trivyInstalled, IMAGE, OUTPUT_FILE, ended, files, exitStatus>>
    /\ UNCHANGED serverVars

\* The JSON run without set -e: the table run starts whatever its status.
JsonScanExit_Continue(p, status, wrote) ==
    /\ pc = "jsonScan"
    /\ p \in running
    /\ status = 0 => wrote
    /\ files' = IF wrote /\ p.output # "" THEN files \cup {p.output} ELSE files
    /\ ended' = Append(ended, [proc |-> p, status |-> status])
    /\ calls' = Append(calls, TableScanCmd(IMAGE))
    /\ running' = {TableScanCmd(IMAGE)}
    /\ pc' = "tableScan"
    /\ UNCHANGED <<argv, trivyInstalled, IMAGE, OUTPUT_FILE, stdout, exitStatus>>
    /\ UNCHANGED serverVars

\* Lines 79-91: the JSON run ends.  With status 0 it has written the file
\* named by its -o option; when it fails it may or may not have created
\* it.  A failure ends the script (set -e); otherwise the table run starts.
JsonScanExit(p, status, wrote) ==
    /\ pc = "jsonScan"
    /\ p \in running
    /\ status = 0 => wrote
    /\ files' = IF wrote /\ p.output # "" THEN files \cup {p.output} ELSE files
    /\ ended' = Append(ended, [proc |-> p, status |-> status])
    /\ IF status # 0
       THEN /\ running' = {}
            /\ Exit(status)
            /\ UNCHANGED calls
       ELSE /\ calls' = Append(calls, TableScanCmd(IMAGE))
            /\ running' = {TableScanCmd(IMAGE)}
            /\ pc' = "tableScan"
            /\ UNCHANGED exitStatus
    /\ UNCHANGED <<argv, trivyInstalled, IMAGE, OUTPUT_FILE, stdout>>
    /\ UNCHANGED serverVars

\* The table run with its status ignored: the banners are printed and the
\* script ends with status 0 whatever the scanner returned.
TableScanExit_IgnoreStatus(p, status) ==
    /\ pc = "tableScan"
    /\ p \in running
    /\ running' = {}
    /\ ended' = Append(ended, [proc |-> p, status |-> status])
    /\ stdout' = stdout
          \o (IF OUTPUT_FILE # "" THEN <<"Results saved to:">> ELSE <<>>)
          \o <<"Scan complete!", "Additional scan options:">>
    /\ Exit(0)
    /\ UNCHANGED <<argv, trivyInstalled, IMAGE, OUTPUT_FILE, calls, files>>
    /\ UNCHANGED serverVars

\* Lines 87-127: the table run ends.  A failure ends the script (set -e);
\* otherwise the banners are printed and the script ends with status 0.
TableScanExit(p, status) ==
    /\ pc = "tableScan"
    /\ p \in running
    /\ running' = {}
    /\ ended' = Append(ended, [proc |-> p, status |-> status])
    /\ IF status # 0
       THEN /\ Exit(status)
            /\ UNCHANGED stdout
       ELSE /\ stdout' = stdout
                  \o (IF OUTPUT_FILE # "" THEN <<"Results saved to:">> ELSE <<>>)
                  \o <<"Scan complete!", "Additional scan options:">>
            /\ Exit(0)
    /\ UNCHANGED <<argv, trivyInstalled, IMAGE, OUTPUT_FILE, calls, files>>
    /\ UNCHANGED serverVars

ScanNext ==
    \/ CheckTrivy
    \/ CheckArgs
    \/ PullStart
    \/ \E p \in running, st \in ExitStatuses : PullExit(p, st)
    \/ ScanStart
    \/ \E p \in running, st \in ExitStatuses, wrote \in BOOLEAN :
           JsonScanExit(p, st, wrote)
    \/ \E p \in running, st \in ExitStatuses : TableScanExit(p, st)

ScanSpec == ScanInit /\ [][ScanNext]_vars

\* The script with its steps taken: the shell goes on to its next command,
\* and every external process it waits for ends.
ScanFairSpec == ScanInit /\ [][ScanNext]_vars /\ WF_vars(ScanNext)

(***************************************************************************)
(* Properties of the scan script, checked under ScanSpec.                  *)
(***************************************************************************)
Printed(line) == \E i \in 1..Len(stdout) : stdout[i] = line

Exited == pc = "exited"

\* The script reached its last line.
Completed == Exited /\ Printed("Scan complete!")

IsScanner(c) == c.cmd = "trivy image"

ScannerCalls == SelectSeq(calls, IsScanner)

\* The second argument names an output file (the test of line 74).
OutputFileGiven == Len(argv) >= 2 /\ argv[2] # ""

\* C5 as stated: a run with zero arguments that has exited has a non-zero
\* status and has printed the usage message.
C5_ZeroArgsUsage ==
    (Exited /\ Len(argv) = 0) => (exitStatus # 0 /\ Printed("Usage:"))

\* C5 as amended: a run with zero arguments never gets past the two checks,
\* exits with a non-zero status, and has printed the usage message when the
\* scanner is installed (when it is not, the missing-scanner error is
\* printed instead).
C5_ZeroArgsExitsNonZero ==
    Len(argv) = 0 =>
        /\ pc \in {"start", "checkArgs", "exited"}
        /\ Exited =>
            /\ exitStatus # 0
            /\ trivyInstalled => Printed("Usage:")
            /\ ~trivyInstalled => Printed("Error: Trivy is not installed")

C5_Witness ==
    Exited /\ Len(argv) = 0 /\ trivyInstalled /\ Printed("Usage:") /\ exitStatus = 1

\* C6 as stated: a run without the scanner binary that has exited has a
\* non-zero status and has printed the usage message.
C6_NoScannerUsage ==
    (Exited /\ ~trivyInstalled) => (exitStatus # 0 /\ Printed("Usage:"))

\* C6 as amended: without the scanner binary the script, whatever its
\* arguments, stops at the first check: it exits with status 1 having
\* printed the missing-scanner error with the install instructions, and
\* not the usage message.
C6_NoScannerExitsNonZero ==
    ~trivyInstalled =>
        /\ pc \in {"start", "exited"}
        /\ Exited =>
            /\ exitStatus = 1
            /\ Printed("Error: Trivy is not installed")
            /\ Printed("Install Trivy:")
            /\ ~Printed("Usage:")

C6_Witness ==
    Exited /\ ~trivyInstalled /\ Len(argv) >= 2 /\ exitStatus = 1

\* C7: when an output file is given (a non-empty second argument, the test
\* of line 74) and the script has run to its last line, a file exists at
\* that path.
C7_OutputFileExists ==
    (Completed /\ OutputFileGiven) => argv[2] \in files

C7_Witness ==
    /\ Completed /\ OutputFileGiven /\ argv[2] \in files
    /\ \E i \in 1..Len(ended) :
          ended[i].proc.format = "json" /\ ended[i].proc.output = argv[2]

JsonRun == [cmd |-> "trivy image", format |-> "json", output |-> argv[2],
            image |-> argv[1]]

TableRun == [cmd |-> "trivy image", format |-> "table", output |-> "",
             image |-> argv[1]]

PassedBothChecks == trivyInstalled /\ Len(argv) > 0

EndedWith(p, statuses) ==
    \E i \in 1..Len(ended) : ended[i].proc = p /\ ended[i].status \in statuses

\* C8 as stated: a run that passed both checks and has exited has invoked
\* the scanner exactly twice (JSON to the file, then table) when an output
\* file is given, and exactly once (table) otherwise.
C8_ScannerRuns ==
    (Exited /\ PassedBothChecks) =>
        ScannerCalls = IF OutputFileGiven THEN <<JsonRun, TableRun>>
                       ELSE <<TableRun>>

\* C8 as amended: with an output file given the scanner is invoked twice
\* (JSON to the file, then table) unless the JSON run exits non-zero, in
\* which case it is the only invocation and the script exits non-zero; with
\* no output file the scanner is invoked once, in table format.
C8_ScannerRunsUnlessJsonFails ==
    (Exited /\ PassedBothChecks) =>
        IF OutputFileGiven
        THEN \/ /\ ScannerCalls = <<JsonRun, TableRun>>
                /\ EndedWith(JsonRun, {0})
             \/ /\ ScannerCalls = <<JsonRun>>
                /\ EndedWith(JsonRun, ExitStatuses \ {0})
                /\ exitStatus # 0
        ELSE ScannerCalls = <<TableRun>>

C8_Witness ==
    /\ Exited /\ PassedBothChecks /\ OutputFileGiven
    /\ ScannerCalls = <<JsonRun, TableRun>>

IsPull(c) == c.cmd = "docker pull"

PullCalls == SelectSeq(calls, IsPull)

HasEnded(p) == \E i \in 1..Len(ended) : ended[i].proc = p

\* The order of the main flow: a scanner run starts only after the pull
\* pipeline has ended, and the table run of the output-file branch only
\* after the JSON run has ended.
PullThenScans ==
    /\ ScannerCalls # <<>> =>
          /\ PullCalls # <<>>
          /\ \A c \in running : ~IsPull(c)
          /\ \A i \in 1..Len(calls) : ~IsScanner(calls[i]) => HasEnded(calls[i])
    /\ Len(ScannerCalls) = 2 =>
          /\ ScannerCalls[1].format = "json"
          /\ HasEnded(ScannerCalls[1])
          /\ ScannerCalls[1] \notin running

\* C13 as stated: the pull ends before any scanner run starts, the JSON run
\* ends before the table run starts, and at no time do two external
\* processes run at once.
C13_OneProcessAtATime ==
    /\ PullThenScans
    /\ Cardinality(running) <= 1

\* C13 as amended: the pull ends before any scanner run starts, the JSON run
\* ends before the table run starts, and the only external processes that
\* ever run at once are the two sides of the pull pipeline of line 67
\* (docker pull and the grep that filters its output).
C13_SequentialButPipeline ==
    /\ PullThenScans
    /\ \/ Cardinality(running) <= 1
       \/ /\ running = {[cmd |-> "docker pull", format |-> "", output |-> "",
                         image |-> argv[1]],
                        [cmd |-> "grep", format |-> "", output |-> "", image |-> ""]}
          /\ ScannerCalls = <<>>

\* The table run of the output-file branch is running, after a pull pipeline
\* and a JSON run that have both ended.
C13_Witness ==
    /\ Len(ScannerCalls) = 2
    /\ ScannerCalls[2] \in running
    /\ HasEnded(ScannerCalls[1])
    /\ \E i \in 1..Len(ended) : IsPull(ended[i].proc)

\* C14: in one run docker pull is invoked at most once and the scanner at
\* most twice, whatever their exit statuses.
C14_NoRetries ==
    /\ Len(PullCalls) <= 1
    /\ Len(ScannerCalls) <= 2

\* The pull failed and a scanner run failed, and the script has ended after
\* one pull and two scanner runs.
C14_Witness ==
    /\ Exited
    /\ Len(PullCalls) = 1 /\ Len(ScannerCalls) = 2
    /\ \E i \in 1..Len(ended) : IsPull(ended[i].proc) /\ ended[i].status # 0
    /\ \E i \in 1..Len(ended) : IsScanner(ended[i].proc) /\ ended[i].status # 0

\* C19: the scanner check comes before the argument check: without the
\* scanner and without arguments the script reports the missing scanner and
\* exits 1, never reaching the argument check nor printing its messages.
C19_ScannerCheckedFirst ==
    (~trivyInstalled /\ Len(argv) = 0) =>
        /\ pc \in {"start", "exited"}
        /\ Exited =>
            /\ exitStatus = 1
            /\ stdout = <<"Error: Trivy is not installed", "Install Trivy:">>
            /\ ~Printed("Error: No image name provided")
            /\ ~Printed("Usage:")

C19_Witness ==
    /\ Exited /\ ~trivyInstalled /\ Len(argv) = 0
    /\ exitStatus = 1
    /\ Printed("Error: Trivy is not installed")

PrerequisiteFails == ~trivyInstalled \/ Len(argv) = 0

\* C20: when the scanner is absent or no argument is given, the script
\* exits with neither docker pull nor the scanner invoked, and no step of
\* the run creates a file.
C20_NothingRunsWhenCheckFails ==
    /\ [](PrerequisiteFails =>
            /\ pc \in {"start", "checkArgs", "exited"}
            /\ PullCalls = <<>>
            /\ ScannerCalls = <<>>
            /\ running = {}
            /\ Exited => exitStatus = 1)
    /\ [][PrerequisiteFails => files' = files]_vars

\* Both kinds of failed run: the scanner absent with an image and an output
\* file given, and the scanner installed with no argument.
C20_Witness ==
    /\ Exited /\ exitStatus = 1 /\ PullCalls = <<>> /\ ScannerCalls = <<>>
    /\ \/ ~trivyInstalled /\ OutputFileGiven /\ argv[2] \notin files
       \/ trivyInstalled /\ Len(argv) = 0 /\ Printed("Usage:")

PullEndedWith(statuses) ==
    \E i \in 1..Len(ended) : IsPull(ended[i].proc) /\ ended[i].status \in statuses

ScannerInvokedOnImage ==
    \E i \in 1..Len(calls) : IsScanner(calls[i]) /\ calls[i].image = argv[1]

\* C21: a failure of the image pull does not abort the script: no end of a
\* process of the pull pipeline, whatever its status, ends the script or
\* sets an exit status, and once docker pull has ended, with status 0 or
\* not, the script goes on to invoke the scanner on the image; a run that
\* has pulled never ends without having invoked the scanner.
C21_PullFailureDoesNotAbort ==
    /\ [][pc = "pulling" =>
            (pc' \in {"pulling", "scan"} /\ exitStatus' = exitStatus)]_vars
    /\ PullEndedWith(ExitStatuses) ~> ScannerInvokedOnImage
    /\ PullEndedWith(ExitStatuses \ {0}) ~> ScannerInvokedOnImage
    /\ []((Exited /\ PullCalls # <<>>) => ScannerInvokedOnImage)

\* docker pull and the grep reading its output both failed, and the scanner
\* was invoked on the image afterwards.
C21_Witness ==
    /\ PullEndedWith(ExitStatuses \ {0})
    /\ \E i \in 1..Len(ended) : ended[i].proc.cmd = "grep" /\ ended[i].status # 0
    /\ ScannerInvokedOnImage

ScannerExits == {i \in 1..Len(ended) : IsScanner(ended[i].proc)}

AllScannersSucceeded == \A i \in ScannerExits : ended[i].status = 0

\* C22: a run that passes both checks, and whose external processes end,
\* exits; when it has exited every scanner invocation it made has ended, it
\* has exited 0 with "Scan complete!" printed if and only if each of them
\* ended with status 0, and otherwise its exit status is not 0.
C22_ExitFollowsScanner ==
    /\ PassedBothChecks ~> Exited
    /\ []((Exited /\ PassedBothChecks) =>
            /\ ScannerCalls # <<>>
            /\ Cardinality(ScannerExits) = Len(ScannerCalls)
            /\ (exitStatus = 0 /\ Printed("Scan complete!")) <=> AllScannersSucceeded
            /\ ~AllScannersSucceeded => exitStatus # 0)

\* A run whose pull failed and whose two scanner runs succeeded has exited 0
\* with the banner printed.
C22_Witness ==
    /\ Exited /\ PassedBothChecks
    /\ PullEndedWith(ExitStatuses \ {0})
    /\ Len(ScannerCalls) = 2 /\ AllScannersSucceeded
    /\ exitStatus = 0 /\ Printed("Scan complete!")

\* C23: with an output file given, a JSON scanner run that fails ends the
\* script there, with a non-zero status: the table run is never started and
\* neither "Results saved to" nor "Scan complete!" is printed; and "Results
\* saved to" is printed only when the JSON run and the table run have both
\* ended with status 0.
C23_JsonFailureStops ==
    /\ (OutputFileGiven /\ EndedWith(JsonRun, ExitStatuses \ {0})) =>
          /\ Exited /\ exitStatus # 0
          /\ running = {}
          /\ ScannerCalls = <<JsonRun>>
          /\ ~Printed("Results saved to:")
          /\ ~Printed("Scan complete!")
    /\ Printed("Results saved to:") =>
          /\ OutputFileGiven
          /\ EndedWith(JsonRun, {0})
          /\ EndedWith(TableRun, {0})

\* The JSON run failed and the script has ended without a table run.
C23_Witness ==
    /\ OutputFileGiven /\ EndedWith(JsonRun, ExitStatuses \ {0})
    /\ Exited /\ ScannerCalls = <<JsonRun>>
    /\ Printed("Saving results to:")

\* The commands a run may invoke, as the first two arguments determine them.
CommandsOfFirstTwoArgs ==
    {[cmd |-> "lsb_release", format |-> "", output |-> "", image |-> ""],
     [cmd |-> "grep", format |-> "", output |-> "", image |-> ""]}
    \cup (IF Len(argv) >= 1
          THEN {[cmd |-> "docker pull", format |-> "", output |-> "", image |-> argv[1]],
                TableRun}
          ELSE {})
    \cup (IF OutputFileGiven THEN {JsonRun} ELSE {})

\* C24: when the second argument is absent or empty, OUTPUT_FILE is empty,
\* no command is invoked with an output path and no step of the run creates
\* a file; and whatever the number of arguments, IMAGE and OUTPUT_FILE are
\* the first and the second argument and every command invoked is one that
\* the first two arguments determine.
C24_NoOutputPathWithoutSecondArg ==
    /\ [](~OutputFileGiven =>
            /\ OUTPUT_FILE = ""
            /\ \A i \in 1..Len(calls) : calls[i].output = ""
            /\ \A i \in 1..Len(ScannerCalls) : ScannerCalls[i] = TableRun)
    /\ [][~OutputFileGiven => files' = files]_vars
    /\ [](pc \in {"pull", "pulling", "scan", "jsonScan", "tableScan"} =>
            /\ IMAGE = argv[1]
            /\ OUTPUT_FILE = IF Len(argv) >= 2 THEN argv[2] ELSE "")
    /\ [](\A i \in 1..Len(calls) : calls[i] \in CommandsOfFirstTwoArgs)

\* A run with an empty second argument and a file name as third argument
\* has run to its last line with one table scan and no file of that name.
C24_Witness ==
    /\ Completed
    /\ Len(argv) = 3 /\ argv[2] = "" /\ argv[3] = "trivy-results.json"
    /\ ScannerCalls = <<TableRun>>
    /\ "trivy-results.json" \notin files

====
